---- MODULE Spec2Model ----
(***************************************************************************)
(* Sales-analysis pipeline: Cleaner (data_processing.clean_data),          *)
(* Dimension Extractor (data_processing.create_dimension_tables),          *)
(* Calendar Builder (data_table.create_date_table) and Measures Engine     *)
(* (measures.py).                                                          *)
(*                                                                         *)
(* A DataFrame is a record [cols |-> set of column names,                  *)
(*                          rows |-> sequence of rows],                    *)
(* a row being a function from the column names to cell values.            *)
(* A value that may be absent (None / NaN / NaT) is a sequence of length   *)
(* at most one: <<>> is the missing value, <<v>> the value v.              *)
(* A date is a record [year, month, day]. A number is held in halves (2    *)
(* stands for 1.0, 3 for 1.5), the product of two numbers in quarters.     *)
(***************************************************************************)
EXTENDS Integers, Sequences, FiniteSets, TLC

VARIABLES
    stage,       \* which component this run exercises
    facts,       \* Measures Engine: the fact table (mutated in place)
    factsIn,     \* ghost: the fact table as first handed to the engine
    factsFirst,  \* ghost: <<table>> as left by the first completed "ensure derived columns"
    repeated,    \* ghost: "ensure derived columns" has completed on a table it had completed on before
    call,        \* the last call made and its outcome
    calArgs,     \* Calendar Builder: the arguments of the call
    calOut,      \* Calendar Builder: the outcome of the call
    raw,         \* Cleaner: the raw table
    cleaned,     \* Cleaner: <<clean_data(raw)>> once computed
    recleaned,   \* Cleaner: <<clean_data(clean_data(raw))>> once computed
    sources,     \* Dimension Extractor: the optional dedicated source tables
    dims         \* Dimension Extractor: the outcome of create_dimension_tables

measuresVars == <<facts, factsIn, factsFirst, repeated, call>>
calendarVars == <<calArgs, calOut>>
cleanerVars == <<raw, cleaned, recleaned>>
extractorVars == <<sources, dims>>

vars == <<stage, measuresVars, calendarVars, cleanerVars, extractorVars>>

Missing == <<>>
Some(v) == <<v>>

----------------------------------------------------------------------------
(* Bounds and input domains of the Measures Engine runs *)

MaxFactRows == 2

FactDates == { [year |-> 2023, month |-> 6, day |-> 15],
               [year |-> 2024, month |-> 3, day |-> 1] }

\* values of the grouping dimension, in the order a sort puts them
DimValues == <<"Online", "Retail">>

DimCells == { Some(DimValues[i]) : i \in 1..Len(DimValues) }

QuantityValues == {0, 2}
UnitPrices == {5}
UnitCosts == {3}

\* values of derived columns that exist before the engine sees the table
Preset == [Sales |-> 7, Total_Cost |-> 4, Profit |-> 1]

\* the optional numeric columns a fact table may carry
ColumnSets ==
    { {"Order Quantity", "Unit Selling Price", "Unit Cost"},
      {"Order Quantity", "Unit Selling Price", "Unit Cost", "Sales", "Total_Cost", "Profit"},
      {"Order Quantity", "Unit Selling Price", "Unit Cost", "Sales"},
      {"Order Quantity", "Unit Selling Price"},
      {"Order Quantity", "Sales", "Total_Cost"},
      {"Sales", "Total_Cost", "Profit"} }

\* current_year arguments: None (infer from the data) or an explicit year
CurrentYears == { Missing, Some(2024), Some(2025) }

BaseCols == {"OrderDate", "Channel"}

FactRow(cs, d, k, q, p, u) ==
    [c \in BaseCols \cup cs |->
        CASE c = "OrderDate" -> d
          [] c = "Channel" -> k
          [] c = "Order Quantity" -> q
          [] c = "Unit Selling Price" -> p
          [] c = "Unit Cost" -> u
          [] c = "Sales" -> Preset.Sales
          [] c = "Total_Cost" -> Preset.Total_Cost
          [] c = "Profit" -> Preset.Profit]

FactRows(cs) ==
    { FactRow(cs, Some(d), k, q, p, u) :
        d \in FactDates, k \in DimCells, q \in QuantityValues, p \in UnitPrices, u \in UnitCosts }

\* the fact table of optional columns cs and rows r
FactTable(cs, r) == [cols |-> BaseCols \cup cs, rows |-> r]

----------------------------------------------------------------------------
(* measures.py *)

\* the right-hand sides of the three assignments of prepare_sales_columns
Derived(c, r) ==
    CASE c = "Sales" -> r["Order Quantity"] * r["Unit Selling Price"]
      [] c = "Total_Cost" -> r["Order Quantity"] * r["Unit Cost"]
      [] c = "Profit" -> r["Sales"] - r["Total_Cost"]

\* the columns each right-hand side reads
Reads(c) ==
    CASE c = "Sales" -> {"Order Quantity", "Unit Selling Price"}
      [] c = "Total_Cost" -> {"Order Quantity", "Unit Cost"}
      [] c = "Profit" -> {"Sales", "Total_Cost"}

\* df[c] = <right-hand side>: the column is added, or replaced if it exists
AssignDerived(df, c) ==
    [cols |-> df.cols \cup {c},
     rows |-> [i \in 1..Len(df.rows) |-> (c :> Derived(c, df.rows[i])) @@ df.rows[i]]]

\* the column recomputed whenever its inputs are there, existing or not
EnsureColumnOverwriting(st, c) ==
    IF st.err THEN st
    ELSE IF Reads(c) \subseteq st.df.cols THEN [df |-> AssignDerived(st.df, c), err |-> FALSE]
    ELSE IF c \in st.df.cols THEN st
    ELSE [df |-> st.df, err |-> TRUE]

\* One "if c not in df.columns: df[c] = ..." statement: st is [df, err]; reading an
\* absent column raises KeyError, which ends the function with the table as it is.
EnsureColumn(st, c) ==
    IF st.err \/ c \in st.df.cols THEN st
    ELSE IF Reads(c) \subseteq st.df.cols THEN [df |-> AssignDerived(st.df, c), err |-> FALSE]
    ELSE [df |-> st.df, err |-> TRUE]

prepare_sales_columns(df) ==
    LET s0 == [df |-> df, err |-> FALSE]
        s1 == EnsureColumn(s0, "Sales")
        s2 == EnsureColumn(s1, "Total_Cost")
        s3 == EnsureColumn(s2, "Profit")
    IN  s3

RECURSIVE SumColumn(_, _)
SumColumn(rows, c) ==
    IF rows = <<>> THEN 0 ELSE rows[1][c] + SumColumn(Tail(rows), c)

\* .dt.year of one cell: missing (NaN) for a missing date (NaT)
YearOf(d) == IF d = Missing THEN Missing ELSE Some(d[1].year)

MaxOf(S) ==
    IF S = {} THEN Missing
    ELSE LET x == CHOOSE v \in S : \A w \in S : w <= v IN Some(x)

\* the earliest year instead of the latest
YearMin(df) ==
    LET S == { YearOf(df.rows[i]["OrderDate"])[1] :
                 i \in { j \in 1..Len(df.rows) : df.rows[j]["OrderDate"] # Missing } }
    IN  IF S = {} THEN Missing ELSE Some(CHOOSE v \in S : \A w \in S : v <= w)

\* df[date_column].dt.year.max(): the missing years are skipped
YearMax(df) ==
    MaxOf({ YearOf(df.rows[i]["OrderDate"])[1] :
              i \in { j \in 1..Len(df.rows) : df.rows[j]["OrderDate"] # Missing } })

\* df[df[date_column].dt.year == y]; a missing year equals nothing
RowsOfYear(df, y) ==
    SelectSeq(df.rows, LAMBDA r : y # Missing /\ YearOf(r["OrderDate"]) = y)

\* the year before the year before
PreviousYearTwoBack(y) == IF y = Missing THEN Missing ELSE Some(y[1] - 2)

\* previous_year = current_year - 1 (no year when there is no current year)
PreviousYear(y) == IF y = Missing THEN Missing ELSE Some(y[1] - 1)

\* a percentage num / den * 100, kept as the exact fraction
Ratio(num, den) == [num |-> num * 100, den |-> den]
Zero == [num |-> 0, den |-> 1]

\* the guard put on the numerator instead of the denominator
GuardedPctOnNumerator(num, den) == IF num # 0 THEN Ratio(num, den) ELSE Zero

\* (num / den * 100) if den != 0 else 0
GuardedPct(num, den) == IF den # 0 THEN Ratio(num, den) ELSE Zero

calculate_yoy(df, value_column, current_year) ==
    LET cur == IF current_year = Missing THEN YearMax(df) ELSE current_year
        previous_year == PreviousYear(cur)
        cy_total == SumColumn(RowsOfYear(df, cur), value_column)
        py_total == SumColumn(RowsOfYear(df, previous_year), value_column)
        var == cy_total - py_total
    IN  [cy |-> cy_total, py |-> py_total, var |-> var,
         var_pct |-> GuardedPct(var, cy_total)]

calculate_profit_margin(total_profit, total_sales) == GuardedPct(total_profit, total_sales)

\* int(x): the fraction cut off, towards zero
int(x) == IF x >= 0 THEN (x \div 2) * 2 ELSE 0 - (((0 - x) \div 2) * 2)

\* calculate_all_measures: [df, prepared, err, measures]; df is the caller's table,
\* which prepare_sales_columns changes in place, prepared whether that call
\* completed, err a KeyError for an absent column (date_column is 'OrderDate')
calculate_all_measures(df, current_year) ==
    LET p == prepare_sales_columns(df)
        sales == calculate_yoy(p.df, "Sales", current_year)
        profit == calculate_yoy(p.df, "Profit", current_year)
        qty == calculate_yoy(p.df, "Order Quantity", current_year)
    IN  IF p.err \/ ~({"OrderDate", "Order Quantity"} \subseteq p.df.cols)
        THEN [df |-> p.df, prepared |-> ~p.err, err |-> TRUE, measures |-> Missing]
        ELSE [df |-> p.df, prepared |-> TRUE, err |-> FALSE, measures |-> Some(
                [total_sales |-> sales.cy,
                 total_sales_py |-> sales.py,
                 total_sales_py_var |-> sales.var,
                 total_sales_py_var_pct |-> sales.var_pct,
                 total_profit |-> profit.cy,
                 total_profit_py |-> profit.py,
                 total_profit_py_var |-> profit.var,
                 total_profit_py_var_pct |-> profit.var_pct,
                 profit_margin_pct |-> calculate_profit_margin(profit.cy, sales.cy),
                 total_cost |-> SumColumn(p.df.rows, "Total_Cost"),
                 total_order_quantity |-> int(qty.cy),
                 total_order_quantity_py |-> int(qty.py),
                 total_order_quantity_py_var |-> int(qty.var),
                 total_order_quantity_py_var_pct |-> qty.var_pct])]

\* the distinct non-missing keys of rows, sorted (groupby drops missing keys)
GroupKeys(rows, dimension) ==
    SelectSeq(DimValues,
              LAMBDA k : \E i \in 1..Len(rows) : rows[i][dimension] = Some(k))

\* each group reduced to its first row instead of its sum
GroupByFirst(rows, dimension, names) ==
    LET keys == GroupKeys(rows, dimension)
        group(k) == SelectSeq(rows, LAMBDA r : r[dimension] = Some(k))
    IN  [i \in 1..Len(keys) |->
            [c \in {dimension} \cup { names[n] : n \in DOMAIN names } |->
                IF c = dimension THEN keys[i]
                ELSE LET n == CHOOSE m \in DOMAIN names : names[m] = c
                     IN  group(keys[i])[1][n]]]

\* rows.groupby(dimension).agg({c: 'sum' for c in DOMAIN names}).reset_index()
\*     .rename(columns=names)
GroupBySum(rows, dimension, names) ==
    LET keys == GroupKeys(rows, dimension)
        group(k) == SelectSeq(rows, LAMBDA r : r[dimension] = Some(k))
    IN  [i \in 1..Len(keys) |->
            [c \in {dimension} \cup { names[n] : n \in DOMAIN names } |->
                IF c = dimension THEN keys[i]
                ELSE LET n == CHOOSE m \in DOMAIN names : names[m] = c
                     IN  SumColumn(group(keys[i]), n)]]

RECURSIVE Flatten(_)
Flatten(ss) == IF ss = <<>> THEN <<>> ELSE ss[1] \o Flatten(Tail(ss))

\* how='inner': only the keys both sides have
MergeInner(left, lcols, right, rcols, on) ==
    LET has(rows, k) == \E i \in 1..Len(rows) : rows[i][on] = k
        keys == SelectSeq(DimValues, LAMBDA k : has(left, k) /\ has(right, k))
        first(rows, k) == rows[CHOOSE i \in 1..Len(rows) :
                                 rows[i][on] = k /\ \A j \in 1..(i - 1) : rows[j][on] # k]
    IN  [n \in 1..Len(keys) |->
            [c \in {on} \cup lcols \cup rcols |->
                IF c = on THEN keys[n]
                ELSE IF c \in lcols THEN Some(first(left, keys[n])[c])
                ELSE Some(first(right, keys[n])[c])]]

\* pd.merge(left, right, on=on, how='outer'): per key (sorted) every pairing of a
\* left row with a right row, or the row of the one side with the other side's
\* columns missing. Cells other than the key come out as optional values.
MergeOuter(left, lcols, right, rcols, on) ==
    LET has(rows, k) == \E i \in 1..Len(rows) : rows[i][on] = k
        keys == SelectSeq(DimValues, LAMBDA k : has(left, k) \/ has(right, k))
        joined(l, r) ==
            [c \in {on} \cup lcols \cup rcols |->
                IF c = on THEN (IF l # Missing THEN l[1][on] ELSE r[1][on])
                ELSE IF c \in lcols THEN (IF l # Missing THEN Some(l[1][c]) ELSE Missing)
                ELSE (IF r # Missing THEN Some(r[1][c]) ELSE Missing)]
        rowsOf(k) ==
            LET L == SelectSeq(left, LAMBDA x : x[on] = k)
                R == SelectSeq(right, LAMBDA x : x[on] = k)
            IN  IF R = <<>> THEN [i \in 1..Len(L) |-> joined(Some(L[i]), Missing)]
                ELSE IF L = <<>> THEN [j \in 1..Len(R) |-> joined(Missing, Some(R[j]))]
                ELSE Flatten([i \in 1..Len(L) |->
                                [j \in 1..Len(R) |-> joined(Some(L[i]), Some(R[j]))]])
    IN  Flatten([n \in 1..Len(keys) |-> rowsOf(keys[n])])

\* .fillna(0) on the merged table
FillNa(rows, on) ==
    [i \in 1..Len(rows) |->
        [c \in DOMAIN rows[i] |->
            IF c = on THEN rows[i][c]
            ELSE IF rows[i][c] = Missing THEN 0 ELSE rows[i][c][1]]]

CYNames == ("Sales" :> "Sales_CY") @@ ("Profit" :> "Profit_CY")
             @@ ("Order Quantity" :> "Qty_CY") @@ ("Total_Cost" :> "Cost_CY")

PYNames == ("Sales" :> "Sales_PY") @@ ("Profit" :> "Profit_PY")
             @@ ("Order Quantity" :> "Qty_PY")

Renamed(names) == { names[n] : n \in DOMAIN names }

\* result['Sales_Var'], result['Sales_Var_Pct'], result['Profit_Margin_Pct']
WithVariance(r) ==
    LET var == r["Sales_CY"] - r["Sales_PY"]
    IN  ("Sales_Var" :> var)
        @@ ("Sales_Var_Pct" :> GuardedPct(var, r["Sales_CY"]))
        @@ ("Profit_Margin_Pct" :> GuardedPct(r["Profit_CY"], r["Sales_CY"]))
        @@ r

\* calculate_measures_by_dimension: [df, prepared, err, result]
calculate_measures_by_dimension(df, dimension, current_year) ==
    LET p == prepare_sales_columns(df)
        cur == IF current_year = Missing THEN YearMax(p.df) ELSE current_year
        prev_year == PreviousYear(cur)
        cy == GroupBySum(RowsOfYear(p.df, cur), dimension, CYNames)
        py == GroupBySum(RowsOfYear(p.df, prev_year), dimension, PYNames)
        merged == FillNa(MergeOuter(cy, Renamed(CYNames), py, Renamed(PYNames), dimension),
                         dimension)
    IN  IF p.err \/ ~({"OrderDate", dimension, "Order Quantity"} \subseteq p.df.cols)
        THEN [df |-> p.df, prepared |-> ~p.err, err |-> TRUE, result |-> <<>>]
        ELSE [df |-> p.df, prepared |-> TRUE, err |-> FALSE,
              result |-> [i \in 1..Len(merged) |-> WithVariance(merged[i])]]

----------------------------------------------------------------------------
(* Runs of the Measures Engine on one fact table: any sequence of calls of    *)
(* prepare_sales_columns, calculate_all_measures and                          *)
(* calculate_measures_by_dimension, all on the same (shared, mutable) table.  *)

NoCall == [op |-> "none", current_year |-> Missing, err |-> FALSE,
           measures |-> Missing, result |-> <<>>]

\* the Calendar Builder before any call
NoCalendarArgs == [entry |-> "none"]
NoCalendar == [returned |-> FALSE, raised |-> FALSE, rows |-> <<>>]

CalendarIdle ==
    /\ calArgs = NoCalendarArgs
    /\ calOut = NoCalendar

\* the Cleaner before any call
CleanerIdle ==
    /\ raw = [cols |-> {}, dtype |-> <<>>, rows |-> <<>>]
    /\ cleaned = Missing
    /\ recleaned = Missing

\* no dedicated source table (customers_df = regions_df = products_df = None)
NoSources == [customers_df |-> Missing, regions_df |-> Missing, products_df |-> Missing]

\* the Dimension Extractor before any call
NoDimensions ==
    [returned |-> FALSE, raised |-> FALSE,
     customer_data |-> [cols |-> {}, rows |-> <<>>],
     products_data |-> [cols |-> {}, rows |-> <<>>],
     regions_table |-> [cols |-> {}, rows |-> <<>>],
     sales_data |-> [cols |-> {}, rows |-> <<>>]]

ExtractorIdle ==
    /\ sources = NoSources
    /\ dims = NoDimensions

\* the Measures Engine has a fact table: its own, or the extractor's
HasFacts == stage = "measures" \/ (stage = "pipeline" /\ dims.returned)

InitMeasures ==
    /\ stage = "measures"
    /\ CalendarIdle
    /\ CleanerIdle
    /\ ExtractorIdle
    /\ \E cs \in ColumnSets : \E n \in 0..MaxFactRows : \E r \in [1..n -> FactRows(cs)] :
         facts = FactTable(cs, r)
    /\ factsIn = facts
    /\ factsFirst = Missing
    /\ repeated = FALSE
    /\ call = NoCall

\* the ghost copy taken when "ensure derived columns" completes for the first time
FirstPrepared(df, completed) ==
    IF factsFirst = Missing /\ completed THEN Some(df) ELSE factsFirst

Repeated(completed) == repeated \/ (factsFirst # Missing /\ completed)

PrepareSalesColumns ==
    /\ stage = "measures"
    /\ LET p == prepare_sales_columns(facts)
       IN  /\ facts' = p.df
           /\ factsFirst' = FirstPrepared(p.df, ~p.err)
           /\ repeated' = Repeated(~p.err)
           /\ call' = [NoCall EXCEPT !.op = "prepare_sales_columns", !.err = p.err]
    /\ UNCHANGED <<stage, factsIn, calendarVars, cleanerVars, extractorVars>>

CalculateAllMeasures ==
    /\ HasFacts
    /\ \E current_year \in CurrentYears :
         LET m == calculate_all_measures(facts, current_year)
         IN  /\ facts' = m.df
             /\ factsFirst' = FirstPrepared(m.df, m.prepared)
             /\ repeated' = Repeated(m.prepared)
             /\ call' = [op |-> "calculate_all_measures", current_year |-> current_year,
                         err |-> m.err, measures |-> m.measures, result |-> <<>>]
    /\ UNCHANGED <<stage, factsIn, calendarVars, cleanerVars, extractorVars>>

CalculateMeasuresByDimension ==
    /\ HasFacts
    /\ \E current_year \in CurrentYears :
         LET m == calculate_measures_by_dimension(facts, "Channel", current_year)
         IN  /\ facts' = m.df
             /\ factsFirst' = FirstPrepared(m.df, m.prepared)
             /\ repeated' = Repeated(m.prepared)
             /\ call' = [op |-> "calculate_measures_by_dimension",
                         current_year |-> current_year,
                         err |-> m.err, measures |-> Missing, result |-> m.result]
    /\ UNCHANGED <<stage, factsIn, calendarVars, cleanerVars, extractorVars>>

NextMeasures == PrepareSalesColumns \/ CalculateAllMeasures \/ CalculateMeasuresByDimension

SpecMeasures == InitMeasures /\ [][NextMeasures]_vars

----------------------------------------------------------------------------
(* Properties of the Measures Engine *)

\* the year the last call compared: its argument, or the latest year of the table
ComparedYear == IF call.current_year = Missing THEN YearMax(facts) ELSE call.current_year

\* indices of the fact rows dated in year y (none when there is no such year)
RowsDated(y) ==
    IF y = Missing THEN {}
    ELSE { i \in 1..Len(facts.rows) :
             /\ facts.rows[i]["OrderDate"] # Missing
             /\ facts.rows[i]["OrderDate"][1].year = y[1] }

RowsCY == RowsDated(ComparedYear)
RowsPY == RowsDated(PreviousYear(ComparedYear))

RECURSIVE SumOver(_, _)
SumOver(I, c) ==
    IF I = {} THEN 0
    ELSE LET i == CHOOSE j \in I : TRUE IN facts.rows[i][c] + SumOver(I \ {i}, c)

\* a variance and its percentage follow the guarded formula
GuardedVariance(cy, py, var, pct) ==
    /\ var = cy - py
    /\ pct.den # 0
    /\ cy = 0 => pct.num = 0
    /\ cy # 0 => pct = [num |-> (cy - py) * 100, den |-> cy]

\* C1: in the scalar bundle and in every row of the per-dimension table the
\* variance is current - prior, the percentage is exactly 0 when the current-year
\* total is 0 (whatever the prior-year total) and variance / current * 100
\* otherwise, and no division by zero is ever performed.
YoYZeroGuard ==
    /\ (call.op = "calculate_all_measures" /\ ~call.err) =>
          LET m == call.measures[1]
          IN  /\ GuardedVariance(m.total_sales, m.total_sales_py,
                                 m.total_sales_py_var, m.total_sales_py_var_pct)
              /\ GuardedVariance(m.total_profit, m.total_profit_py,
                                 m.total_profit_py_var, m.total_profit_py_var_pct)
              /\ GuardedVariance(m.total_order_quantity, m.total_order_quantity_py,
                                 m.total_order_quantity_py_var,
                                 m.total_order_quantity_py_var_pct)
    /\ (call.op = "calculate_measures_by_dimension" /\ ~call.err) =>
          \A i \in 1..Len(call.result) :
              LET r == call.result[i]
              IN  GuardedVariance(r["Sales_CY"], r["Sales_PY"],
                                  r["Sales_Var"], r["Sales_Var_Pct"])

\* a bundle with no current-year sales and nonzero prior-year sales
YoYZeroGuardWitness ==
    /\ call.op = "calculate_all_measures"
    /\ ~call.err
    /\ call.measures[1].total_sales = 0
    /\ call.measures[1].total_sales_py > 0
    /\ call.measures[1].total_sales_py_var < 0
    /\ call.measures[1].total_sales_py_var_pct.num = 0

\* dimension values of the fact rows with index in I
ValuesIn(I) ==
    { facts.rows[i]["Channel"][1] : i \in { j \in I : facts.rows[j]["Channel"] # Missing } }

RowsOfValue(I, k) == { i \in I : facts.rows[i]["Channel"] = Some(k) }

ResultRows(k) == { j \in 1..Len(call.result) : call.result[j]["Channel"] = k }

\* C2: every dimension value of a current-year or prior-year row has exactly one
\* row in the per-dimension table; a value of prior-year rows only has CY columns
\* 0 and the prior-year sums in its PY columns, a value of current-year rows
\* only has PY columns 0.
OuterJoinComplete ==
    (call.op = "calculate_measures_by_dimension" /\ ~call.err) =>
        \A k \in ValuesIn(RowsCY) \cup ValuesIn(RowsPY) :
            /\ Cardinality(ResultRows(k)) = 1
            /\ \A j \in ResultRows(k) :
                 LET r == call.result[j]
                 IN  /\ k \notin ValuesIn(RowsCY) =>
                          /\ r["Sales_CY"] = 0 /\ r["Profit_CY"] = 0
                          /\ r["Qty_CY"] = 0 /\ r["Cost_CY"] = 0
                          /\ r["Sales_PY"] = SumOver(RowsOfValue(RowsPY, k), "Sales")
                          /\ r["Profit_PY"] = SumOver(RowsOfValue(RowsPY, k), "Profit")
                          /\ r["Qty_PY"] = SumOver(RowsOfValue(RowsPY, k), "Order Quantity")
                     /\ k \notin ValuesIn(RowsPY) =>
                          /\ r["Sales_PY"] = 0 /\ r["Profit_PY"] = 0 /\ r["Qty_PY"] = 0

\* a table of two values, one sold only last year (with sales), one only this year
OuterJoinCompleteWitness ==
    /\ call.op = "calculate_measures_by_dimension"
    /\ ~call.err
    /\ \E k \in ValuesIn(RowsPY) \ ValuesIn(RowsCY) :
          \E j \in ResultRows(k) : call.result[j]["Sales_PY"] > 0
    /\ ValuesIn(RowsCY) \ ValuesIn(RowsPY) # {}

DerivedColumns == {"Sales", "Total_Cost", "Profit"}

\* C10: once "ensure derived columns" has completed on a table, every later
\* invocation (direct or through the two calculations) leaves the table's
\* columns and values as the first one left them, and a derived column that
\* was there before the first invocation keeps the values it had.
DerivedColumnsIdempotent ==
    factsFirst # Missing =>
        /\ facts = factsFirst[1]
        /\ Len(facts.rows) = Len(factsIn.rows)
        /\ \A c \in DerivedColumns \cap factsIn.cols :
             \A i \in 1..Len(factsIn.rows) : facts.rows[i][c] = factsIn.rows[i][c]

\* a second completed invocation on a table that came with Sales but without Profit
DerivedColumnsIdempotentWitness ==
    /\ repeated
    /\ facts.rows # <<>>
    /\ "Sales" \in factsIn.cols
    /\ "Profit" \notin factsIn.cols
    /\ "Profit" \in facts.cols

\* the columns calculate_all_measures reads
MeasuredColumns == {"OrderDate", "Order Quantity", "Sales", "Total_Cost", "Profit"}

----------------------------------------------------------------------------
(* Dates. A date string 'YYYY-MM-DD' is the record [year, month, day]; a      *)
(* timestamp is the number of days since 1 January of the first year.          *)

Years == 2023..2025

FirstYear == CHOOSE y \in Years : \A z \in Years : y <= z

IsLeapYear(y) == (y % 4 = 0 /\ y % 100 # 0) \/ y % 400 = 0

DaysInMonth(y, m) ==
    IF m = 2 THEN (IF IsLeapYear(y) THEN 29 ELSE 28)
    ELSE IF m \in {4, 6, 9, 11} THEN 30 ELSE 31

DaysInYear(y) == IF IsLeapYear(y) THEN 366 ELSE 365

AllDates ==
    { d \in [year : Years, month : 1..12, day : 1..31] : d.day <= DaysInMonth(d.year, d.month) }

RECURSIVE DaysBeforeYear(_)
DaysBeforeYear(y) == IF y <= FirstYear THEN 0 ELSE DaysBeforeYear(y - 1) + DaysInYear(y - 1)

RECURSIVE DaysBeforeMonth(_, _)
DaysBeforeMonth(y, m) == IF m <= 1 THEN 0 ELSE DaysBeforeMonth(y, m - 1) + DaysInMonth(y, m - 1)

\* pd.Timestamp('YYYY-MM-DD')
ToTimestamp(d) == DaysBeforeYear(d.year) + DaysBeforeMonth(d.year, d.month) + d.day - 1

RECURSIVE MonthAndDay(_, _, _)
MonthAndDay(y, m, n) ==
    IF n >= DaysInMonth(y, m) THEN MonthAndDay(y, m + 1, n - DaysInMonth(y, m))
    ELSE [year |-> y, month |-> m, day |-> n + 1]

RECURSIVE YearMonthDay(_, _)
YearMonthDay(y, n) ==
    IF n >= DaysInYear(y) THEN YearMonthDay(y + 1, n - DaysInYear(y))
    ELSE MonthAndDay(y, 1, n)

\* the calendar fields of a timestamp (.dt.year, .dt.month, .dt.day)
ToDate(t) == YearMonthDay(FirstYear, t)

----------------------------------------------------------------------------
(* data_table.py *)

\* a range that stops one day short of end
DateRangeExclusive(start, end) ==
    IF ToTimestamp(end) <= ToTimestamp(start) THEN <<>>
    ELSE [i \in 1..(ToTimestamp(end) - ToTimestamp(start)) |-> ToTimestamp(start) + i - 1]

\* pd.date_range(start=start_date, end=end_date, freq='D'): every day from start to
\* end inclusive, none when end is before start
DateRange(start, end) ==
    IF ToTimestamp(end) < ToTimestamp(start) THEN <<>>
    ELSE [i \in 1..(ToTimestamp(end) - ToTimestamp(start) + 1) |-> ToTimestamp(start) + i - 1]

\* the fiscal year taken one month late
FiscalYearStrict(year, month, fiscal_start_month) ==
    IF month > fiscal_start_month THEN year ELSE year - 1

\* np.where(Month >= fiscal_start_month, Year, Year - 1)
FiscalYear(year, month, fiscal_start_month) ==
    IF month >= fiscal_start_month THEN year ELSE year - 1

\* ((Month - fiscal_start_month) % 12) // 3 + 1, % with the sign of the divisor
FiscalQuarter(month, fiscal_start_month) ==
    ((month - fiscal_start_month) % 12) \div 3 + 1

CalendarRow(t, fiscal_start_month) ==
    LET d == ToDate(t)
    IN  [Date |-> d,
         Year |-> d.year,
         Quarter |-> (d.month - 1) \div 3 + 1,
         Month |-> d.month,
         Day |-> d.day,
         Fiscal_Year |-> FiscalYear(d.year, d.month, fiscal_start_month),
         Fiscal_Quarter |-> FiscalQuarter(d.month, fiscal_start_month)]

\* create_date_table: no argument is validated and no statement raises for
\* date strings and an integer month, so the call always returns a table
create_date_table(start_date, end_date, fiscal_start_month) ==
    LET dates == DateRange(start_date, end_date)
    IN  [returned |-> TRUE, raised |-> FALSE,
         rows |-> [i \in 1..Len(dates) |-> CalendarRow(dates[i], fiscal_start_month)]]

\* the column names of the vocabulary that contain "date", whatever the case
DateLike(cols) == cols \cap {"OrderDate", "Ship Date"}

\* ts + pd.DateOffset(months=k): the month moved by k, the day kept or cut back to
\* the last day of the month reached
AddMonths(d, k) ==
    LET n == d.year * 12 + (d.month - 1) + k
        y == n \div 12
        m == (n % 12) + 1
    IN  [year |-> y, month |-> m,
         day |-> IF d.day <= DaysInMonth(y, m) THEN d.day ELSE DaysInMonth(y, m)]

\* the day of the month left as it is
FirstOfMonthUnsnapped(d) == d

\* ts.replace(day=1)
FirstOfMonth(d) == [d EXCEPT !.day = 1]

\* ts - pd.DateOffset(days=1)
DayBefore(d) == ToDate(ToTimestamp(d) - 1)

\* sales_df[date_columns].min().min() and .max().max(): the dates of the cells
DateCells(df, date_columns) ==
    { df.rows[i][c] : i \in 1..Len(df.rows), c \in date_columns }

Earliest(D) == CHOOSE d \in D : \A e \in D : ToTimestamp(d) <= ToTimestamp(e)
Latest(D) == CHOOSE d \in D : \A e \in D : ToTimestamp(e) <= ToTimestamp(d)

\* create_date_table_from_sales: ValueError when there is no date column (none
\* detected, or an empty list given), KeyError for a column the table lacks
create_date_table_from_sales(sales_df, date_columns_arg, buffer_months, fiscal_start_month) ==
    LET date_columns == IF date_columns_arg = Missing THEN DateLike(sales_df.cols)
                        ELSE date_columns_arg[1]
        min_date == Earliest(DateCells(sales_df, date_columns))
        max_date == Latest(DateCells(sales_df, date_columns))
        start_date == FirstOfMonth(AddMonths(min_date, 0 - buffer_months))
        end_date == DayBefore(AddMonths(FirstOfMonth(AddMonths(max_date, buffer_months)), 1))
    IN  IF date_columns = {} \/ ~(date_columns \subseteq sales_df.cols)
        THEN [returned |-> FALSE, raised |-> TRUE, rows |-> <<>>]
        ELSE create_date_table(start_date, end_date, fiscal_start_month)

----------------------------------------------------------------------------
(* Runs of the Calendar Builder: one call of create_date_table or of          *)
(* create_date_table_from_sales                                               *)

MaxSalesRows == 1
MaxBufferMonths == 1

SalesDates == { [year |-> 2024, month |-> 1, day |-> 31],
                [year |-> 2024, month |-> 2, day |-> 15],
                [year |-> 2024, month |-> 3, day |-> 31] }

SalesColumnSets == { {"Channel"}, {"OrderDate", "Channel"}, {"OrderDate", "Ship Date", "Channel"} }

SalesRows(cs) ==
    { [c \in cs |-> IF c = "Channel" THEN Some("Online")
                    ELSE IF c = "OrderDate" THEN o ELSE h] : o \in SalesDates, h \in SalesDates }

\* the sales table of columns cs and rows r
SalesTable(cs, r) == [cols |-> cs, rows |-> r]

\* date_columns arguments: None (detect), a list, an empty list
DateColumnArgs == { Missing, Some({"OrderDate"}), Some({}) }

SalesFiscalStartMonths == {0, 4, 13}

\* the range arguments lie at most this many days apart, either way round
MaxSpan == 3

\* start dates: the last day of each month of one (leap) year
StartDates ==
    { d \in AllDates : d.year = FirstYear + 1 /\ d.day = DaysInMonth(d.year, d.month) }

EndDates(start) ==
    { d \in AllDates :
        /\ ToTimestamp(d) - ToTimestamp(start) <= MaxSpan
        /\ ToTimestamp(start) - ToTimestamp(d) <= MaxSpan }

\* fiscal_start_month arguments, valid (1..12) and not
FiscalStartMonths == -1..14

MeasuresIdle ==
    /\ facts = [cols |-> {}, rows |-> <<>>]
    /\ factsIn = facts
    /\ factsFirst = Missing
    /\ repeated = FALSE
    /\ call = NoCall

InitCalendar ==
    /\ stage = "calendar"
    /\ MeasuresIdle
    /\ CleanerIdle
    /\ ExtractorIdle
    /\ \/ \E start \in StartDates : \E end \in EndDates(start) :
            \E fiscal_start_month \in FiscalStartMonths :
               calArgs = [entry |-> "create_date_table", start_date |-> start,
                          end_date |-> end, fiscal_start_month |-> fiscal_start_month]
       \* a table of at least one row: every date column has a date
       \/ \E cs \in SalesColumnSets : \E n \in 1..MaxSalesRows :
            \E r \in [1..n -> SalesRows(cs)] : \E date_columns \in DateColumnArgs :
            \E buffer_months \in 0..MaxBufferMonths :
            \E fiscal_start_month \in SalesFiscalStartMonths :
               calArgs = [entry |-> "create_date_table_from_sales",
                          sales_df |-> SalesTable(cs, r),
                          date_columns |-> date_columns, buffer_months |-> buffer_months,
                          fiscal_start_month |-> fiscal_start_month]
    /\ calOut = NoCalendar

CreateDateTable ==
    /\ stage = "calendar"
    /\ calArgs.entry = "create_date_table"
    /\ ~calOut.returned /\ ~calOut.raised
    /\ calOut' = create_date_table(calArgs.start_date, calArgs.end_date,
                                   calArgs.fiscal_start_month)
    /\ UNCHANGED <<stage, measuresVars, cleanerVars, extractorVars, calArgs>>

CreateDateTableFromSales ==
    /\ stage = "calendar"
    /\ calArgs.entry = "create_date_table_from_sales"
    /\ ~calOut.returned /\ ~calOut.raised
    /\ calOut' = create_date_table_from_sales(calArgs.sales_df, calArgs.date_columns,
                                              calArgs.buffer_months,
                                              calArgs.fiscal_start_month)
    /\ UNCHANGED <<stage, measuresVars, cleanerVars, extractorVars, calArgs>>

NextCalendar == CreateDateTable \/ CreateDateTableFromSales

SpecCalendar == InitCalendar /\ [][NextCalendar]_vars

----------------------------------------------------------------------------
(* Properties of the Calendar Builder *)

\* a is the same day as b or an earlier one
NotAfter(a, b) ==
    \/ a.year < b.year
    \/ a.year = b.year /\ a.month < b.month
    \/ a.year = b.year /\ a.month = b.month /\ a.day <= b.day

\* the day after d
NextDay(d) ==
    IF d.day < DaysInMonth(d.year, d.month) THEN [d EXCEPT !.day = d.day + 1]
    ELSE IF d.month < 12 THEN [year |-> d.year, month |-> d.month + 1, day |-> 1]
    ELSE [year |-> d.year + 1, month |-> 1, day |-> 1]

DirectCall == calArgs.entry = "create_date_table"
CalendarDone == calOut.returned \/ calOut.raised

\* C3: for start <= end the table of create_date_table(start, end) has one row
\* per day of [start, end] (end - start + 1 rows), begins at start, ends at end,
\* and each row is dated the day after the row before it.
CalendarInvariant ==
    (DirectCall /\ CalendarDone /\ NotAfter(calArgs.start_date, calArgs.end_date)) =>
        /\ calOut.returned
        /\ Len(calOut.rows) =
              Cardinality({ d \in AllDates : /\ NotAfter(calArgs.start_date, d)
                                             /\ NotAfter(d, calArgs.end_date) })
        /\ calOut.rows[1].Date = calArgs.start_date
        /\ calOut.rows[Len(calOut.rows)].Date = calArgs.end_date
        /\ \A i \in 1..(Len(calOut.rows) - 1) :
             calOut.rows[i + 1].Date = NextDay(calOut.rows[i].Date)

\* the table of 29 February to 3 March of a leap year: four rows
CalendarInvariantWitness ==
    /\ DirectCall
    /\ calOut.returned
    /\ calArgs.start_date = [year |-> 2024, month |-> 2, day |-> 29]
    /\ calArgs.end_date = [year |-> 2024, month |-> 3, day |-> 3]
    /\ Len(calOut.rows) = 4

\* C4: create_date_table fails whenever end precedes start; it never returns a
\* table (not even an empty one) for such a range.
InvertedRangeRejected ==
    (DirectCall /\ CalendarDone /\ ~NotAfter(calArgs.start_date, calArgs.end_date)) =>
        (calOut.raised /\ ~calOut.returned)

\* C5: create_date_table and create_date_table_from_sales fail whenever
\* fiscal_start_month is outside 1..12; they never return a table then.
FiscalMonthOutOfRangeRejected ==
    (CalendarDone /\ calArgs.fiscal_start_month \notin 1..12) =>
        (calOut.raised /\ ~calOut.returned)

\* what C6 says of one calendar row, but for the quarter of January under start
\* month 4, which is the parameter january
FiscalRow(r, f, january) ==
    LET y == r.Date.year
        m == r.Date.month
        \* months since the fiscal year began, 0..11
        elapsed == IF m >= f THEN m - f ELSE m - f + 12
    IN  /\ m >= f => r.Fiscal_Year = y
        /\ m < f => r.Fiscal_Year = y - 1
        /\ r.Fiscal_Quarter = elapsed \div 3 + 1
        /\ r.Fiscal_Quarter \in 1..4
        /\ (f = 4 /\ m = 3) => r.Fiscal_Year = y - 1
        /\ (f = 4 /\ m = 4) => r.Fiscal_Year = y
        /\ (f = 4 /\ m = 6) => r.Fiscal_Quarter = 1
        /\ (f = 4 /\ m = 1) => r.Fiscal_Quarter = january

\* C6 as stated: with fiscal_start_month in 1..12, every calendar row has
\* Fiscal_Year = year if month >= fiscal_start_month and year - 1 otherwise, and
\* Fiscal_Quarter = ((month - fiscal_start_month) mod 12) div 3 + 1 with the mod
\* taken non-negative, a value of 1..4; with start month 4, March is in fiscal
\* year year - 1, April in fiscal year year, June in quarter 1 and January in
\* quarter 3.
FiscalAttributesAsClaimed ==
    (calOut.returned /\ calArgs.fiscal_start_month \in 1..12) =>
        \A i \in 1..Len(calOut.rows) :
            FiscalRow(calOut.rows[i], calArgs.fiscal_start_month, 3)

\* C6, amended: the same, with January in quarter 4 under start month 4
\* (((1 - 4) mod 12) div 3 + 1 = 9 div 3 + 1 = 4).
FiscalAttributes ==
    (calOut.returned /\ calArgs.fiscal_start_month \in 1..12) =>
        \A i \in 1..Len(calOut.rows) :
            FiscalRow(calOut.rows[i], calArgs.fiscal_start_month, 4)

\* a table with start month 4 that has days of January, March and April
FiscalAttributesWitness ==
    /\ calOut.returned
    /\ calArgs.fiscal_start_month = 4
    /\ \E i \in 1..Len(calOut.rows) : \E j \in 1..Len(calOut.rows) :
          \E k \in 1..Len(calOut.rows) :
            /\ calOut.rows[i].Date.month = 3
            /\ calOut.rows[j].Date.month = 4
            /\ calOut.rows[k].Date.month = 1
            /\ calOut.rows[j].Fiscal_Year = calOut.rows[i].Fiscal_Year + 1
            /\ calOut.rows[k].Fiscal_Quarter = 4

SalesCall == calArgs.entry = "create_date_table_from_sales"

\* the date columns a call of create_date_table_from_sales goes by: those given,
\* or those whose name contains "date"
UsedDateColumns ==
    IF calArgs.date_columns = Missing
    THEN { c \in calArgs.sales_df.cols : c \in {"OrderDate", "Ship Date"} }
    ELSE calArgs.date_columns[1]

UsedDates ==
    { calArgs.sales_df.rows[i][c] :
        i \in 1..Len(calArgs.sales_df.rows), c \in UsedDateColumns }

\* months since year 0 of the month of d
MonthIndex(d) == d.year * 12 + d.month - 1

\* C14: the calendar of create_date_table_from_sales begins on day 1 of the
\* month buffer_months before the month of the earliest date of the date columns
\* and ends on the last day of the month buffer_months after the month of the
\* latest one, so every date of those columns is a row; with no date-like column
\* and no date_columns given the call raises and returns nothing.
CalendarCoversSales ==
    (SalesCall /\ CalendarDone) =>
        /\ (calArgs.date_columns = Missing /\ UsedDateColumns = {}) =>
              (calOut.raised /\ ~calOut.returned)
        /\ (UsedDateColumns # {} /\ UsedDateColumns \subseteq calArgs.sales_df.cols) =>
              LET first == CHOOSE d \in UsedDates : \A e \in UsedDates : NotAfter(d, e)
                  last == CHOOSE d \in UsedDates : \A e \in UsedDates : NotAfter(e, d)
                  from == MonthIndex(first) - calArgs.buffer_months
                  to == MonthIndex(last) + calArgs.buffer_months
                  n == Len(calOut.rows)
              IN  /\ calOut.returned
                  /\ n > 0
                  /\ calOut.rows[1].Date =
                        [year |-> from \div 12, month |-> (from % 12) + 1, day |-> 1]
                  /\ calOut.rows[n].Date =
                        [year |-> to \div 12, month |-> (to % 12) + 1,
                         day |-> DaysInMonth(to \div 12, (to % 12) + 1)]
                  /\ \A d \in UsedDates : \E i \in 1..n : calOut.rows[i].Date = d

\* detected columns OrderDate and Ship Date, earliest date 31 January 2024, latest
\* 31 March 2024, one buffer month: the calendar runs from 1 December 2023 to
\* 30 April 2024
CalendarCoversSalesWitness ==
    /\ SalesCall
    /\ calOut.returned
    /\ calArgs.date_columns = Missing
    /\ UsedDateColumns = {"OrderDate", "Ship Date"}
    /\ calArgs.buffer_months = 1
    /\ calOut.rows[1].Date = [year |-> 2023, month |-> 12, day |-> 1]
    /\ calOut.rows[Len(calOut.rows)].Date = [year |-> 2024, month |-> 4, day |-> 30]
    /\ \E i \in 1..Len(calOut.rows) :
          calOut.rows[i].Date = [year |-> 2024, month |-> 1, day |-> 31]

\* a call that raises for want of a date column
NoDateColumnWitness ==
    /\ SalesCall
    /\ calOut.raised
    /\ calArgs.date_columns = Missing
    /\ UsedDateColumns = {}

----------------------------------------------------------------------------
(* data_processing.py: clean_data                                              *)
(* A table of the Cleaner also records the dtype of each column: "number",    *)
(* "object" (text) or "datetime". Numbers are held in halves (2 stands for    *)
(* 1.0, 3 for 1.5), which makes the median of an even count exact. A raw date *)
(* cell is a string, a converted one a date record.                           *)

\* df.drop_duplicates(): the rows equal to an earlier row go, the first stays
\* (two missing cells count as equal)
DropDuplicates(rows) ==
    LET keep == { i \in 1..Len(rows) : \A j \in 1..(i - 1) : rows[j] # rows[i] }
        nth(n) == CHOOSE i \in keep : Cardinality({ j \in keep : j < i }) = n - 1
    IN  [n \in 1..Cardinality(keep) |-> rows[nth(n)]]

RECURSIVE Insert(_, _)
Insert(sorted, v) ==
    IF sorted = <<>> THEN <<v>>
    ELSE IF v <= sorted[1] THEN <<v>> \o sorted
    ELSE <<sorted[1]>> \o Insert(Tail(sorted), v)

RECURSIVE Sorted(_)
Sorted(vals) == IF vals = <<>> THEN <<>> ELSE Insert(Sorted(Tail(vals)), vals[1])

\* the non-missing values of column c, in row order
Present(rows, c) ==
    LET cells == SelectSeq([i \in 1..Len(rows) |-> rows[i][c]], LAMBDA x : x # Missing)
    IN  [i \in 1..Len(cells) |-> cells[i][1]]

\* df[c].median(): over the non-missing values; missing (NaN) when there is none
Median(rows, c) ==
    LET v == Sorted(Present(rows, c))
        n == Len(v)
    IN  IF n = 0 THEN Missing
        ELSE IF n % 2 = 1 THEN Some(v[(n + 1) \div 2])
        ELSE Some((v[n \div 2] + v[n \div 2 + 1]) \div 2)

\* cell.fillna(value): a missing value fills nothing
FillCell(cell, value) == IF cell = Missing THEN value ELSE cell

\* pd.to_datetime(cell, errors='coerce') of a string
ParseDate(text) ==
    CASE text = "2024-01-05" -> Some([year |-> 2024, month |-> 1, day |-> 5])
      [] text = "2023-07-20" -> Some([year |-> 2023, month |-> 7, day |-> 20])
      [] OTHER -> Missing

\* pd.to_datetime(df[col], errors='coerce'): strings are parsed, what cannot be
\* parsed becomes NaT, a datetime column stays as it is
ToDatetime(cell, dtype) ==
    IF dtype = "datetime" \/ cell = Missing THEN cell ELSE ParseDate(cell[1])

Abs(x) == IF x < 0 THEN 0 - x ELSE x

MagnitudeColumns == {"Order Quantity", "Unit Selling Price", "Unit Cost"}

\* what steps 2 to 5 of clean_data make of one cell of column c; rows are the
\* rows left by drop_duplicates
CleanCell(df, rows, c, cell) ==
    LET filled == IF df.dtype[c] = "number" THEN FillCell(cell, Median(rows, c))
                  ELSE IF df.dtype[c] = "object" THEN FillCell(cell, Some("Unknown"))
                  ELSE cell
        dated == IF c \in DateLike(df.cols) THEN ToDatetime(filled, df.dtype[c]) ELSE filled
    IN  IF c \in MagnitudeColumns /\ dated # Missing THEN Some(Abs(dated[1])) ELSE dated

clean_data(df) ==
    LET rows == DropDuplicates(df.rows)
    IN  [cols |-> df.cols,
         dtype |-> [c \in df.cols |-> IF c \in DateLike(df.cols) THEN "datetime"
                                      ELSE df.dtype[c]],
         rows |-> [i \in 1..Len(rows) |->
                     [c \in df.cols |-> CleanCell(df, rows, c, rows[i][c])]]]

----------------------------------------------------------------------------
(* data_processing.py: create_dimension_tables                                *)
(* The source tables are tables of the Cleaner's kind. A dimension table and   *)
(* the fact table are [cols, rows]; a number of the fact table is the value    *)
(* itself, as the Measures Engine reads it.                                    *)

\* df[cols]
Project(rows, cols) == [i \in 1..Len(rows) |-> [c \in cols |-> rows[i][c]]]

Digits == <<"0", "1", "2", "3", "4", "5", "6", "7", "8", "9">>

RECURSIVE NatStr(_)
NatStr(k) == IF k < 10 THEN Digits[k + 1] ELSE NatStr(k \div 10) \o Digits[(k % 10) + 1]

\* .astype(str) of one cell: the decimal digits of a number (held in halves),
\* a text as it is, 'nan' for a missing value
AsTypeStr(cell, dtype) ==
    IF cell = Missing THEN "nan"
    ELSE IF dtype # "number" THEN cell[1]
    ELSE IF cell[1] % 2 = 0 THEN NatStr(cell[1] \div 2)
    ELSE NatStr(cell[1] \div 2) \o ".5"

\* pd.DataFrame()
EmptyTable == [cols |-> {}, rows |-> <<>>]

\* src[[c for c in allow if c in src.columns]].drop_duplicates().reset_index(drop=True)
Distinct(src, allow) == DropDuplicates(Project(src.rows, allow \cap src.cols))

\* data[id] = data[key].astype(str) on the distinct rows: KeyError when the
\* projected table has no column key
KeyedDimension(src, allow, key, id) ==
    LET data == Distinct(src, allow)
    IN  IF key \notin allow \cap src.cols THEN [err |-> TRUE, table |-> EmptyTable]
        ELSE [err |-> FALSE,
              table |-> [cols |-> (allow \cap src.cols) \cup {id},
                         rows |-> [i \in 1..Len(data) |->
                                     (id :> AsTypeStr(data[i][key], src.dtype[key]))
                                     @@ data[i]]]]

\* data[id] = range(1, len(data) + 1) on the distinct rows
NumberedDimension(src, allow, id) ==
    LET data == Distinct(src, allow)
    IN  [err |-> FALSE,
         table |-> [cols |-> (allow \cap src.cols) \cup {id},
                    rows |-> [i \in 1..Len(data) |-> (id :> i) @@ data[i]]]]

NoDimension == [err |-> FALSE, table |-> EmptyTable]

\* ----- Customers -----
CustomerDimension(sales_df, customers_df) ==
    IF customers_df # Missing
    THEN KeyedDimension(customers_df[1],
                        {"Customer Index", "Customer Names", "Size", "Capital"},
                        "Customer Index", "Customer_ID")
    ELSE IF "Customer Name" \in sales_df.cols \/ "Customer Index" \in sales_df.cols
    THEN \* iloc[:, 0]: the first of the two columns the table has
         KeyedDimension(sales_df, {"Customer Index", "Customer Name"},
                        IF "Customer Index" \in sales_df.cols THEN "Customer Index"
                        ELSE "Customer Name",
                        "Customer_ID")
    ELSE NoDimension

\* ----- Products -----
ProductDimension(sales_df, products_df) ==
    IF products_df # Missing
    THEN KeyedDimension(products_df[1],
                        {"Index", "Product Name", "Customer Index", "Customer Names",
                         "Size", "Capital"},
                        "Index", "Product_ID")
    ELSE IF "Product Description" \in sales_df.cols
    THEN NumberedDimension(sales_df, {"Product Description"}, "Product_ID")
    ELSE NoDimension

\* ----- Regions -----
RegionDimension(sales_df, regions_df) ==
    IF regions_df # Missing
    THEN KeyedDimension(regions_df[1],
                        {"Index", "Suburb", "City", "postcode", "Longitude", "Latitude",
                         "Full Address"},
                        "Index", "Region_ID")
    ELSE IF "Delivery Region Index" \in sales_df.cols \/ "City" \in sales_df.cols
    THEN NumberedDimension(sales_df, {"Delivery Region Index", "City"}, "Region_ID")
    ELSE NoDimension

FactColumns ==
    {"OrderNumber", "OrderDate", "Ship Date", "Customer Name", "Index", "Channel",
     "Currency Code", "Warehouse Code", "Delivery Region Index", "Product Description",
     "Order Quantity", "Unit Selling Price", "Unit Cost"}

\* a cell as the fact table holds it
FactValue(cell, dtype) == IF dtype = "number" THEN cell[1] ELSE cell

\* one "if <inputs> in sales_data.columns: sales_data[c] = ..." statement
AddDerived(df, c) == IF Reads(c) \subseteq df.cols THEN AssignDerived(df, c) ELSE df

\* the fact table with its distinct rows only
SalesFactDeduplicated(sales_df) ==
    LET cols == FactColumns \cap sales_df.cols
        rows == DropDuplicates(Project(sales_df.rows, cols))
        sales_data ==
            [cols |-> cols,
             rows |-> [i \in 1..Len(rows) |->
                         [c \in cols |-> FactValue(rows[i][c], sales_df.dtype[c])]]]
    IN  AddDerived(AddDerived(AddDerived(sales_data, "Sales"), "Total_Cost"), "Profit")

\* ----- Sales Fact Table -----: sales_df[fact_cols].copy(), then Sales,
\* Total_Cost and Profit, each added when the columns it reads are there
SalesFact(sales_df) ==
    LET cols == FactColumns \cap sales_df.cols
        rows == Project(sales_df.rows, cols)
        sales_data ==
            [cols |-> cols,
             rows |-> [i \in 1..Len(rows) |->
                         [c \in cols |-> FactValue(rows[i][c], sales_df.dtype[c])]]]
    IN  AddDerived(AddDerived(AddDerived(sales_data, "Sales"), "Total_Cost"), "Profit")

\* create_dimension_tables: the four tables, or a KeyError and no table
create_dimension_tables(sales_df, customers_df, regions_df, products_df) ==
    LET customers == CustomerDimension(sales_df, customers_df)
        products == ProductDimension(sales_df, products_df)
        regions == RegionDimension(sales_df, regions_df)
    IN  IF customers.err \/ products.err \/ regions.err
        THEN [returned |-> FALSE, raised |-> TRUE,
              customer_data |-> EmptyTable, products_data |-> EmptyTable,
              regions_table |-> EmptyTable, sales_data |-> EmptyTable]
        ELSE [returned |-> TRUE, raised |-> FALSE,
              customer_data |-> customers.table, products_data |-> products.table,
              regions_table |-> regions.table, sales_data |-> SalesFact(sales_df)]

----------------------------------------------------------------------------
(* Runs of the Cleaner: clean_data on a raw table, then on its own output *)

MaxRawRows == 3

RawQuantities == { Some(0 - 2), Some(2), Missing }
RawChannels == { Some("Retail"), Missing }
RawDates == { Some("2024-01-05"), Some("n/a"), Missing }

RawColumnSets == { {"Order Quantity", "Channel", "OrderDate"}, {"Order Quantity"}, {"Channel"} }

RawDtype(c) == IF c = "Order Quantity" THEN "number" ELSE "object"

RawRows(cs) ==
    { [c \in cs |-> IF c = "Order Quantity" THEN q ELSE IF c = "Channel" THEN k ELSE d] :
        q \in RawQuantities, k \in RawChannels, d \in RawDates }

\* the raw table of columns cs and rows r
RawTable(cs, r) == [cols |-> cs, dtype |-> [c \in cs |-> RawDtype(c)], rows |-> r]

InitCleaner ==
    /\ stage = "cleaner"
    /\ MeasuresIdle
    /\ CalendarIdle
    /\ ExtractorIdle
    \* a raw table has at least one row (an empty source is refused when loaded)
    /\ \E cs \in RawColumnSets : \E n \in 1..MaxRawRows : \E r \in [1..n -> RawRows(cs)] :
         raw = RawTable(cs, r)
    /\ cleaned = Missing
    /\ recleaned = Missing

CleanData ==
    /\ stage \in {"cleaner", "pipeline"}
    /\ cleaned = Missing
    /\ cleaned' = Some(clean_data(raw))
    /\ UNCHANGED <<stage, measuresVars, calendarVars, extractorVars, raw, recleaned>>

CleanAgain ==
    /\ stage = "cleaner"
    /\ cleaned # Missing
    /\ recleaned = Missing
    /\ recleaned' = Some(clean_data(cleaned[1]))
    /\ UNCHANGED <<stage, measuresVars, calendarVars, extractorVars, raw, cleaned>>

NextCleaner == CleanData \/ CleanAgain

SpecCleaner == InitCleaner /\ [][NextCleaner]_vars

----------------------------------------------------------------------------
(* Properties of the Cleaner *)

\* C7: no two rows of clean_data(raw) are equal in every column.
NoDuplicateRows ==
    cleaned # Missing =>
        \A i \in 1..Len(cleaned[1].rows) : \A j \in 1..Len(cleaned[1].rows) :
            i # j => cleaned[1].rows[i] # cleaned[1].rows[j]

\* C8: after clean_data every cell of a numeric column is a number and every cell
\* of a text column is non-missing, also when a numeric column has no
\* non-missing value at all.
NoMissingValues ==
    cleaned # Missing =>
        \A i \in 1..Len(cleaned[1].rows) : \A c \in cleaned[1].cols :
            cleaned[1].dtype[c] \in {"number", "object"} => cleaned[1].rows[i][c] # Missing

\* C9: clean_data(clean_data(raw)) has the same rows in the same order as
\* clean_data(raw).
CleanIdempotent ==
    recleaned # Missing => recleaned[1].rows = cleaned[1].rows

----------------------------------------------------------------------------
(* Runs of the pipeline (main): clean_data on the raw table,                  *)
(* create_dimension_tables on the clean one, then the calculations of the     *)
(* Measures Engine on the fact table.                                         *)

MaxSourceRows == 3

\* 1.0, 2.0 and NaN; 10.0; 4.0
SourceQuantities == { Some(2), Some(4), Missing }
SourcePrices == { Some(20) }
SourceCosts == { Some(8) }
\* date and channel of an order line: this year's are online, last year's retail
SourceOrders == { [OrderDate |-> Some("2024-01-05"), Channel |-> Some("Online")],
                  [OrderDate |-> Some("2023-07-20"), Channel |-> Some("Retail")] }
\* customer (index 1.0 or 2.0, name) and product of a line: two names under
\* index 1, one name under two indexes, two products
SourceLines ==
    { [index |-> Some(2), name |-> Some("Acme"), product |-> Some("Widget")],
      [index |-> Some(2), name |-> Some("Zenith"), product |-> Some("Widget")],
      [index |-> Some(4), name |-> Some("Acme"), product |-> Some("Gadget")],
      [index |-> Some(4), name |-> Some("Acme"), product |-> Some("Widget")] }

\* order lines with all the inputs of the derived columns, order lines without
\* Unit Cost and Channel, and lines that name customers and products only
SourceColumnSets ==
    { {"Order Quantity", "Unit Selling Price", "Unit Cost", "OrderDate", "Channel"},
      {"Order Quantity", "Unit Selling Price", "OrderDate"},
      {"Customer Index", "Customer Name", "Product Description"} }

NumericColumns == {"Order Quantity", "Unit Selling Price", "Unit Cost", "Customer Index", "Index"}

SourceDtype(c) == IF c \in NumericColumns THEN "number" ELSE "object"

SourceRows(cs) ==
    { [c \in cs |->
         CASE c = "Order Quantity" -> q
           [] c = "Unit Selling Price" -> p
           [] c = "Unit Cost" -> u
           [] c = "OrderDate" -> o.OrderDate
           [] c = "Channel" -> o.Channel
           [] c = "Customer Index" -> l.index
           [] c = "Customer Name" -> l.name
           [] c = "Product Description" -> l.product] :
        q \in SourceQuantities, p \in SourcePrices, u \in SourceCosts, o \in SourceOrders,
        l \in SourceLines }

SourceTable(cs, r) == [cols |-> cs, dtype |-> [c \in cs |-> SourceDtype(c)], rows |-> r]

\* every numeric column of the table has a value in some row
NumbersPresent(df) ==
    \A c \in df.cols \cap NumericColumns : \E i \in 1..Len(df.rows) : df.rows[i][c] # Missing

\* dedicated customers: two names under one Customer Index, a third of its own
CustomersOfOneIndex ==
    SourceTable({"Customer Index", "Customer Names"},
                << ("Customer Index" :> Some(2)) @@ ("Customer Names" :> Some("Acme")),
                   ("Customer Index" :> Some(2)) @@ ("Customer Names" :> Some("Zenith")),
                   ("Customer Index" :> Some(4)) @@ ("Customer Names" :> Some("Acme")) >>)

\* dedicated customers without the Customer Index column
CustomersWithoutIndex ==
    SourceTable({"Customer Names"}, << ("Customer Names" :> Some("Acme")) >>)

ProductsByIndex ==
    SourceTable({"Index", "Product Name"},
                << ("Index" :> Some(2)) @@ ("Product Name" :> Some("Widget")),
                   ("Index" :> Some(4)) @@ ("Product Name" :> Some("Gadget")),
                   ("Index" :> Some(2)) @@ ("Product Name" :> Some("Widget")) >>)

RegionsByIndex ==
    SourceTable({"Index", "City"}, << ("Index" :> Some(2)) @@ ("City" :> Some("Lyon")) >>)

\* the dedicated sources tried with a raw table: none, and with customer lines
\* also customers, customers without their key, products and regions
DedicatedSources(cols) ==
    IF "Customer Index" \notin cols THEN { NoSources }
    ELSE { NoSources,
           [NoSources EXCEPT !.customers_df = Some(CustomersOfOneIndex)],
           [NoSources EXCEPT !.customers_df = Some(CustomersWithoutIndex)],
           [NoSources EXCEPT !.products_df = Some(ProductsByIndex),
                             !.regions_df = Some(RegionsByIndex)] }

InitPipeline ==
    /\ stage = "pipeline"
    /\ MeasuresIdle
    /\ CalendarIdle
    \* a raw table has at least one row (an empty source is refused when loaded)
    /\ \E cs \in SourceColumnSets : \E n \in 1..MaxSourceRows :
         \E r \in [1..n -> SourceRows(cs)] :
            /\ NumbersPresent(SourceTable(cs, r))
            /\ raw = SourceTable(cs, r)
    /\ cleaned = Missing
    /\ recleaned = Missing
    /\ sources \in DedicatedSources(raw.cols)
    /\ dims = NoDimensions

\* customer_data, products_data, regions_table, sales_data =
\*     create_dimension_tables(sales_clean, ...); sales_data is the table the
\* Measures Engine then works on
CreateDimensionTables ==
    /\ stage = "pipeline"
    /\ cleaned # Missing
    /\ ~dims.returned /\ ~dims.raised
    /\ dims' = create_dimension_tables(cleaned[1], sources.customers_df,
                                        sources.regions_df, sources.products_df)
    /\ facts' = dims'.sales_data
    /\ factsIn' = facts'
    /\ UNCHANGED <<stage, factsFirst, repeated, call, calendarVars, cleanerVars, sources>>

NextPipeline ==
    CleanData \/ CreateDimensionTables \/ CalculateAllMeasures \/ CalculateMeasuresByDimension

SpecPipeline == InitPipeline /\ [][NextPipeline]_vars

----------------------------------------------------------------------------
(* Properties of the pipeline *)

ExtractorDone == dims.returned \/ dims.raised

\* no two rows of table carry the same value of column id
UniqueIds(table, id) ==
    \A i \in 1..Len(table.rows) : \A j \in 1..Len(table.rows) :
        i # j => table.rows[i][id] # table.rows[j][id]

\* C11: no two rows of the customer, product or region table returned by
\* create_dimension_tables carry the same Customer_ID / Product_ID / Region_ID,
\* whether the identifier comes from a natural-key column or is a sequence number.
DimensionIdsUnique ==
    dims.returned =>
        /\ UniqueIds(dims.customer_data, "Customer_ID")
        /\ UniqueIds(dims.products_data, "Product_ID")
        /\ UniqueIds(dims.regions_table, "Region_ID")

\* C12: on a fact table returned by create_dimension_tables that has its date
\* column (and the grouping column), calculate_all_measures and
\* calculate_measures_by_dimension complete without an error, also when Sales,
\* Total_Cost or Profit was not added for want of Order Quantity, Unit Selling
\* Price or Unit Cost.
MeasuresTolerateSkippedDerivation ==
    (stage = "pipeline" /\ dims.returned) =>
        /\ (call.op = "calculate_all_measures" /\ "OrderDate" \in facts.cols) => ~call.err
        /\ (call.op = "calculate_measures_by_dimension"
              /\ {"OrderDate", "Channel"} \subseteq facts.cols) => ~call.err

\* the value of a cell of the clean table, as a fact table holds it
CleanValue(i, c) ==
    IF cleaned[1].dtype[c] = "number" THEN cleaned[1].rows[i][c][1] ELSE cleaned[1].rows[i][c]

\* C15: with no dedicated source, create_dimension_tables raises nothing; a
\* dimension none of whose identifying columns is in the clean source gets a table
\* of zero rows, the other dimensions get their tables, and the fact table has the
\* rows of the clean source, as many and in the same order.
EmptyDimensionTolerated ==
    (stage = "pipeline" /\ ExtractorDone /\ sources = NoSources) =>
        LET cols == cleaned[1].cols
            n == Len(cleaned[1].rows)
        IN  /\ dims.returned /\ ~dims.raised
            /\ dims.customer_data.rows = <<>>
                  <=> cols \cap {"Customer Name", "Customer Index"} = {}
            /\ dims.products_data.rows = <<>> <=> "Product Description" \notin cols
            /\ dims.regions_table.rows = <<>>
                  <=> cols \cap {"Delivery Region Index", "City"} = {}
            /\ Len(dims.sales_data.rows) = n
            /\ \A i \in 1..n : \A c \in FactColumns \cap cols :
                  dims.sales_data.rows[i][c] = CleanValue(i, c)

\* customer and product lines without a region column: no region, two customers,
\* two products, and three fact rows of which the first two differ
EmptyDimensionToleratedWitness ==
    /\ stage = "pipeline"
    /\ dims.returned
    /\ sources = NoSources
    /\ dims.regions_table.rows = <<>>
    /\ Len(dims.customer_data.rows) = 2
    /\ Len(dims.products_data.rows) = 2
    /\ Len(dims.sales_data.rows) = 3
    /\ dims.sales_data.rows[1] # dims.sales_data.rows[2]
    /\ dims.sales_data.rows[1] = dims.sales_data.rows[3]

RECURSIVE Total(_)
Total(values) == IF values = <<>> THEN 0 ELSE values[1] + Total(Tail(values))

\* a whole number of units as a product of two numbers is held (in quarters)
Quarters(x) == x * 4

\* the percentage pct (a fraction num / den) is the number x
IsPercent(pct, x) == pct.den # 0 /\ pct.num = x * pct.den

\* the raw table of the example: quantity 2, price 10, cost 4 in the later year,
\* quantity 1, price 10, cost 4 in the year before
ExampleRaw ==
    /\ Len(raw.rows) = 2
    /\ raw.rows[1]["Order Quantity"] = Some(4) /\ raw.rows[1]["OrderDate"] = Some("2024-01-05")
    /\ raw.rows[2]["Order Quantity"] = Some(2) /\ raw.rows[2]["OrderDate"] = Some("2023-07-20")
    /\ \A i \in 1..2 : /\ raw.rows[i]["Unit Selling Price"] = Some(20)
                        /\ raw.rows[i]["Unit Cost"] = Some(8)

\* C16: for a raw table with Order Quantity, Unit Selling Price, Unit Cost and
\* OrderDate, calculate_all_measures with the year inferred, run on the fact table
\* of the cleaned table, gives as Sales CY the sum of quantity * price over the
\* clean rows of the latest year Y, as Sales PY that over the rows of Y - 1, as
\* profit the sums of quantity * price - quantity * cost, and as margin
\* Profit CY / Sales CY * 100; the example gives Sales 20 and 10, variance 10
\* and 50 percent, Profit 12 and 6, margin 60 percent.
EndToEndMeasures ==
    (/\ stage = "pipeline"
     /\ call.op = "calculate_all_measures"
     /\ call.current_year = Missing
     /\ {"Order Quantity", "Unit Selling Price", "Unit Cost", "OrderDate"} \subseteq raw.cols) =>
        LET rows == cleaned[1].rows
            n == Len(rows)
            year(i) == rows[i]["OrderDate"][1].year
            Y == CHOOSE y \in { year(i) : i \in 1..n } : \A i \in 1..n : year(i) <= y
            sales(i) == rows[i]["Order Quantity"][1] * rows[i]["Unit Selling Price"][1]
            profit(i) == sales(i) - rows[i]["Order Quantity"][1] * rows[i]["Unit Cost"][1]
            salesCY == Total([i \in 1..n |-> IF year(i) = Y THEN sales(i) ELSE 0])
            salesPY == Total([i \in 1..n |-> IF year(i) = Y - 1 THEN sales(i) ELSE 0])
            profitCY == Total([i \in 1..n |-> IF year(i) = Y THEN profit(i) ELSE 0])
            profitPY == Total([i \in 1..n |-> IF year(i) = Y - 1 THEN profit(i) ELSE 0])
            m == call.measures[1]
        IN  /\ ~call.err
            /\ m.total_sales = salesCY
            /\ m.total_sales_py = salesPY
            /\ m.total_sales_py_var = salesCY - salesPY
            /\ m.total_profit = profitCY
            /\ m.total_profit_py = profitPY
            /\ salesCY # 0 =>
                  m.profit_margin_pct = [num |-> profitCY * 100, den |-> salesCY]
            /\ ExampleRaw =>
                  /\ m.total_sales = Quarters(20)
                  /\ m.total_sales_py = Quarters(10)
                  /\ m.total_sales_py_var = Quarters(10)
                  /\ IsPercent(m.total_sales_py_var_pct, 50)
                  /\ m.total_profit = Quarters(12)
                  /\ m.total_profit_py = Quarters(6)
                  /\ IsPercent(m.profit_margin_pct, 60)

\* the bundle computed for the example
EndToEndMeasuresWitness ==
    /\ stage = "pipeline"
    /\ call.op = "calculate_all_measures"
    /\ call.current_year = Missing
    /\ {"Order Quantity", "Unit Selling Price", "Unit Cost", "OrderDate"} \subseteq raw.cols
    /\ ExampleRaw
    /\ ~call.err
    /\ call.measures[1].total_sales = Quarters(20)
    /\ IsPercent(call.measures[1].profit_margin_pct, 60)

\* C17: when every fact row has a value of the grouping dimension, the columns
\* Sales_CY, Sales_PY, Profit_CY, Profit_PY, Qty_CY and Qty_PY of the table of
\* calculate_measures_by_dimension add up to total_sales, total_sales_py,
\* total_profit, total_profit_py, total_order_quantity and
\* total_order_quantity_py of calculate_all_measures on the same table and year.
ScalarAgreesWithDimensions ==
    (/\ HasFacts
     /\ call.op = "calculate_measures_by_dimension"
     /\ ~call.err
     /\ \A i \in 1..Len(facts.rows) : facts.rows[i]["Channel"] # Missing) =>
        LET scalar == calculate_all_measures(facts, call.current_year)
            m == scalar.measures[1]
            column(c) == Total([j \in 1..Len(call.result) |-> call.result[j][c]])
        IN  /\ ~scalar.err
            /\ column("Sales_CY") = m.total_sales
            /\ column("Sales_PY") = m.total_sales_py
            /\ column("Profit_CY") = m.total_profit
            /\ column("Profit_PY") = m.total_profit_py
            /\ column("Qty_CY") = m.total_order_quantity
            /\ column("Qty_PY") = m.total_order_quantity_py

----------------------------------------------------------------------------
(* The whole: a run exercises one of the components, or the pipeline *)

Init == InitMeasures \/ InitCalendar \/ InitCleaner \/ InitPipeline

Next == NextMeasures \/ NextCalendar \/ NextCleaner \/ NextPipeline

Spec == Init /\ [][Next]_vars

====
